---- MODULE Spec2Model ----
(***************************************************************************)
(* Model of contribution.go: the sector aggregation of a demographic       *)
(* group's consumption (getConsumptionBySCC), the emissions vector         *)
(* (getEmissionsBySCC), the demographic-by-sector matrix (demAndEmissions),*)
(* its population adjustment (populationAdjust), the exposure computation  *)
(* (getExposureByPopulation) and the pipeline that chains them             *)
(* (emissionsAndDemTesting).                                               *)
(*                                                                         *)
(* Indices are 1-based here and 0-based in the Go source.  The external    *)
(* providers (the eieio server's RPC methods) answer nondeterministically: *)
(* every call either fails or returns a value from a bounded set.          *)
(***************************************************************************)
EXTENDS Integers, Sequences, FiniteSets, TLC

VARIABLES
    pc,               \* position of emissionsAndDemTesting
    s,                \* the server's reference data: len(s.SCCs), s.IndustryToSCCMap
    dems,             \* the demographic groups of the pipeline (their indices)
    emisByDemAndSCC,  \* the matrix local of emissionsAndDemTesting
    err,              \* what emissionsAndDemTesting returns
    calls,            \* provider calls made so far by the pipeline, in order
    fn,               \* the function called directly ("" in the pipeline)
    args,             \* its arguments and the providers' answers
    ret               \* what it returned, with its locals at exit (NoCall before)

vars == <<pc, s, dems, emisByDemAndSCC, err, calls, fn, args, ret>>

----------------------------------------------------------------------------
(* Bounds of the model. *)

MaxVal == 1    \* provider vectors hold values 0..MaxVal
MaxSCC == 2    \* len(s.SCCs) ranges over 1..MaxSCC
MaxInd == 2    \* len(s.IndustryToSCCMap) ranges over 1..MaxInd
MaxDems == 2   \* a direct call passes 1..MaxDems groups
MaxPop == 2    \* a group's population count ranges over 0..MaxPop
MaxGrid == 2   \* the concentration vector has 0..MaxGrid grid cells
MaxNames == 2  \* the population provider lists 0..MaxNames names
MaxCells == 6  \* a matrix or a table of population grids has at most MaxCells cells
NumDems == 3   \* the pipeline's group list (the deciles) has NumDems groups

----------------------------------------------------------------------------
(* float64.  A value is a non-negative rational n/d in lowest terms, +Inf  *)
(* (1/0) or NaN (0/0).  Rounding is not modelled: the arithmetic is exact. *)

RECURSIVE GCD(_, _)
GCD(a, b) == IF b = 0 THEN a ELSE GCD(b, a % b)

Norm(n, d) ==
    IF d = 0 THEN [n |-> IF n = 0 THEN 0 ELSE 1, d |-> 0]
    ELSE LET g == GCD(n, d) IN [n |-> n \div g, d |-> d \div g]

Float(i) == [n |-> i, d |-> 1]
Inf == [n |-> 1, d |-> 0]
NaN == [n |-> 0, d |-> 0]
IsFinite(x) == x.d # 0

FMul(x, y) == Norm(x.n * y.n, x.d * y.d)
FDiv(x, y) == Norm(x.n * y.d, x.d * y.n)
FAdd(x, y) ==
    IF x.d = 0 \/ y.d = 0
    THEN (IF x = NaN \/ y = NaN THEN NaN ELSE Inf)
    ELSE Norm(x.n * y.d + y.n * x.d, x.d * y.d)

Zeros(n) == [k \in 1..n |-> Float(0)]

----------------------------------------------------------------------------
(* Errors.  NoErr is Go's nil error; the other kinds are the places the    *)
(* source creates an error: a provider's failure (wrapped or passed on),   *)
(* and the fmt.Errorf of a length check.                                   *)

NoErr == "nil"
ProviderError == "provider"
DimensionMismatch == "dimension"

\* how a call ended
Returned == "returned"
Panicked == "panic"

----------------------------------------------------------------------------
(* Reference data of the server. *)

SeqsOfLen(S, n) == [1..n -> S]
SeqsUpTo(S, n) == UNION {SeqsOfLen(S, k) : k \in 0..n}

Vals == {Float(v) : v \in 0..MaxVal}

\* s.IndustryToSCCMap is a slice with one entry per industry, each entry the
\* sectors (distinct, within 1..nSCC) the industry contributes to.  There is
\* at least one sector: mat.NewVecDense and mat.NewDense panic on a zero
\* dimension, and the group lists below are non-empty for the same reason.
Servers ==
    UNION {
        {[nSCC |-> n, IndustryToSCCMap |-> m] : m \in SeqsOfLen(SUBSET (1..n), k)}
        : <<n, k>> \in (1..MaxSCC) \X (1..MaxInd)}

NoServer == [nSCC |-> 0, IndustryToSCCMap |-> <<>>]

----------------------------------------------------------------------------
(* getConsumptionBySCC *)

\* a loop that overwrites the sector's entry instead of adding to it
RECURSIVE consumptionLoopOverwrite(_, _, _, _)
consumptionLoopOverwrite(srv, Data, industryIdx, consumptionBySCC) ==
    IF industryIdx > Len(Data)
    THEN [end |-> Returned, vec |-> consumptionBySCC]
    ELSE IF industryIdx > Len(srv.IndustryToSCCMap)
    THEN [end |-> Panicked, vec |-> <<>>]
    ELSE LET SCCs == srv.IndustryToSCCMap[industryIdx]
         IN  consumptionLoopOverwrite(srv, Data, industryIdx + 1,
                 [sccIdx \in 1..Len(consumptionBySCC) |->
                     IF sccIdx \in SCCs
                     THEN Data[industryIdx]
                     ELSE consumptionBySCC[sccIdx]])

\* lines 48-54: consumptionBySCC starts at zero; each industry's consumption
\* is added to every sector of s.IndustryToSCCMap[industryIdx]
RECURSIVE consumptionLoop(_, _, _, _)
consumptionLoop(srv, Data, industryIdx, consumptionBySCC) ==
    IF industryIdx > Len(Data)
    THEN [end |-> Returned, vec |-> consumptionBySCC]
    ELSE IF industryIdx > Len(srv.IndustryToSCCMap)
    THEN [end |-> Panicked, vec |-> <<>>]    \* index out of range
    ELSE LET SCCs == srv.IndustryToSCCMap[industryIdx]
         IN  consumptionLoop(srv, Data, industryIdx + 1,
                 [sccIdx \in 1..Len(consumptionBySCC) |->
                     IF sccIdx \in SCCs
                     THEN FAdd(consumptionBySCC[sccIdx], Data[industryIdx])
                     ELSE consumptionBySCC[sccIdx]])

\* end: returned or panicked; err: the error returned; vec: the vector (<<>>
\* for nil)
getConsumptionBySCC(srv, totalConsRPC) ==
    IF totalConsRPC.err
    THEN [end |-> Returned, err |-> ProviderError, vec |-> <<>>]
    ELSE LET r == consumptionLoop(srv, totalConsRPC.Data, 1, Zeros(srv.nSCC))
         IN  [end |-> r.end, err |-> NoErr, vec |-> r.vec]

----------------------------------------------------------------------------
(* The log of provider calls: which method, for which group (0 when the    *)
(* call names none), for which year, and whether it succeeded.             *)

Year == 2015          \* emissionsAndDemTesting: var year int32 = 2015
AdjustYear == 2015    \* populationAdjust: TotalPopulationCount(dem, 2015)

Call(op, dem, yr, ok) == [op |-> op, dem |-> dem, year |-> yr, ok |-> ok]

----------------------------------------------------------------------------
(* getEmissionsBySCC.  The response is the dense matrix (grid cell by      *)
(* sector) that rpc2mat yields, as a sequence of rows.                     *)

RECURSIVE columnTotal(_, _, _, _)
\* lines 80-83: the sum of column sectorIdx, from row i on
columnTotal(emis, sectorIdx, i, totalEmissions) ==
    IF i > Len(emis) THEN totalEmissions
    ELSE columnTotal(emis, sectorIdx, i + 1, FAdd(totalEmissions, emis[i][sectorIdx]))

getEmissionsBySCC(srv, emisRPC) ==
    IF emisRPC.err
    THEN [err |-> ProviderError, vec |-> <<>>]
    ELSE IF Len(emisRPC.M[1]) # srv.nSCC
    THEN [err |-> DimensionMismatch, vec |-> <<>>]
    ELSE [err |-> NoErr,
          vec |-> [sectorIdx \in 1..srv.nSCC |->
                      columnTotal(emisRPC.M, sectorIdx, 1, Float(0))]]

----------------------------------------------------------------------------
(* demAndEmissions *)

\* a row that holds the group's dot product in every cell
demRowDot(row, consumption, emis) ==
    [sectorIdx \in 1..Len(row) |->
        IF sectorIdx <= Len(consumption)
        THEN FMul(consumption[1], emis[1])
        ELSE row[sectorIdx]]

\* lines 106-110: the cells of one group's row
demRow(row, consumption, emis) ==
    [sectorIdx \in 1..Len(row) |->
        IF sectorIdx <= Len(consumption)
        THEN FMul(consumption[sectorIdx], emis[sectorIdx])
        ELSE row[sectorIdx]]

\* a return that hands the caller the rows filled so far
demAbortPartial(e, demAndSec, cons, log) ==
    [end |-> Returned, err |-> e, matNil |-> FALSE, demAndSec |-> demAndSec,
     consumption |-> cons, calls |-> log]

\* lines 101-103: return nil, nil, err
demAbort(e, demAndSec, cons, log) ==
    [end |-> Returned, err |-> e, matNil |-> TRUE, demAndSec |-> <<>>,
     consumption |-> cons, calls |-> log]

RECURSIVE demLoop(_, _, _, _, _, _, _, _)
\* lines 99-111, from group demIdx on
demLoop(srv, dms, consRPCs, emis, demIdx, demAndSec, cons, log) ==
    IF demIdx > Len(dms)
    THEN [end |-> Returned, err |-> NoErr, matNil |-> FALSE, demAndSec |-> demAndSec,
          consumption |-> cons, calls |-> log]
    ELSE LET c == getConsumptionBySCC(srv, consRPCs[demIdx])
             log2 == Append(log, Call("DemographicConsumption", dms[demIdx], Year,
                                      ~consRPCs[demIdx].err))
         IN  IF c.end = Panicked
             THEN [end |-> Panicked, err |-> NoErr, matNil |-> TRUE, demAndSec |-> <<>>,
                   consumption |-> cons, calls |-> log2]
             ELSE IF c.err # NoErr
             THEN demAbort(c.err, demAndSec, cons, log2)
             ELSE demLoop(srv, dms, consRPCs, emis, demIdx + 1,
                          [demAndSec EXCEPT ![demIdx] = demRow(@, c.vec, emis)],
                          Append(cons, c.vec), log2)

\* the matrix, the sector list (s.SCCs, as the sectors' indices) and the error
demAndEmissions(srv, dms, emisRPC, consRPCs) ==
    LET e == getEmissionsBySCC(srv, emisRPC)
        log == <<Call("EmissionsMatrix", 0, Year, ~emisRPC.err)>>
    IN  IF e.err # NoErr
        THEN [end |-> Returned, err |-> e.err, matNil |-> TRUE, demAndSec |-> <<>>,
              SCCs |-> <<>>, emis |-> <<>>, consumption |-> <<>>, calls |-> log]
        ELSE LET r == demLoop(srv, dms, consRPCs, e.vec, 1,
                              [d \in 1..Len(dms) |-> Zeros(srv.nSCC)], <<>>, log)
             IN  [end |-> r.end, err |-> r.err, matNil |-> r.matNil,
                  demAndSec |-> r.demAndSec,
                  SCCs |-> IF r.matNil THEN <<>> ELSE [k \in 1..srv.nSCC |-> k],
                  emis |-> e.vec, consumption |-> r.consumption, calls |-> r.calls]

----------------------------------------------------------------------------
(* populationAdjust.  A population answer is a failure or an int count.    *)

RECURSIVE popLoop(_, _, _, _, _, _)
\* lines 247-254, from group demIdx on
popLoop(dms, popRPCs, demIdx, totalPop, popCounts, log) ==
    IF demIdx > Len(dms)
    THEN [err |-> NoErr, totalPop |-> totalPop, popCounts |-> popCounts, calls |-> log]
    ELSE LET log2 == Append(log, Call("TotalPopulationCount", dms[demIdx], AdjustYear,
                                      ~popRPCs[demIdx].err))
         IN  IF popRPCs[demIdx].err
             THEN [err |-> ProviderError, totalPop |-> totalPop,
                   popCounts |-> popCounts, calls |-> log2]
             ELSE popLoop(dms, popRPCs, demIdx + 1,
                          totalPop + popRPCs[demIdx].count,
                          [popCounts EXCEPT ![demIdx] = popRPCs[demIdx].count], log2)

\* a row scaled by the group's share of the total, popCount / totalPop
adjustRowInverse(row, totalPop, popCount) ==
    LET adjustRatio == FDiv(Float(popCount), Float(totalPop))
    IN  [j \in 1..Len(row) |-> FMul(row[j], adjustRatio)]

\* lines 261-264: a row scaled by totalPop / popCount
adjustRow(row, totalPop, popCount) ==
    LET adjustRatio == FDiv(Float(totalPop), Float(popCount))
    IN  [j \in 1..Len(row) |-> FMul(row[j], adjustRatio)]

\* an adjustment that rescales a row as soon as its group's count is known
populationAdjustEager(m, dms, popRPCs) ==
    LET p == popLoop(dms, popRPCs, 1, 0, [d \in 1..Len(dms) |-> 0], <<>>)
        counted == IF p.err = NoErr THEN Len(dms) ELSE Len(p.calls) - 1
        scaled == [demIdx \in 1..Len(m) |->
                      IF demIdx <= counted
                      THEN adjustRow(m[demIdx], p.totalPop, p.popCounts[demIdx])
                      ELSE m[demIdx]]
    IN  [end |-> Returned,
         err |-> IF p.err # NoErr THEN p.err
                 ELSE IF Len(m) # Len(dms) THEN DimensionMismatch ELSE NoErr,
         matrix |-> scaled, calls |-> p.calls]

\* the matrix is adjusted in place: matrix is its content when the call ends
populationAdjust(m, dms, popRPCs) ==
    LET p == popLoop(dms, popRPCs, 1, 0, [d \in 1..Len(dms) |-> 0], <<>>)
    IN  IF p.err # NoErr
        THEN [end |-> Returned, err |-> p.err, matrix |-> m, calls |-> p.calls]
        ELSE IF Len(m) # Len(dms)
        THEN [end |-> Returned, err |-> DimensionMismatch, matrix |-> m,
              calls |-> p.calls]
        ELSE [end |-> Returned, err |-> NoErr,
              matrix |-> [demIdx \in 1..Len(dms) |->
                             adjustRow(m[demIdx], p.totalPop, p.popCounts[demIdx])],
              calls |-> p.calls]

----------------------------------------------------------------------------
(* getExposureByPopulation.  Go maps are functions on their key sets.      *)

\* m[k] += v, creating the entry at zero when the key is new
MapAdd(m, k, v) ==
    [x \in DOMAIN m \cup {k} |->
        IF x = k THEN FAdd(IF k \in DOMAIN m THEN m[k] ELSE Float(0), v) ELSE m[x]]

MapSet(m, k, v) == [x \in DOMAIN m \cup {k} |-> IF x = k THEN v ELSE m[x]]

EmptyMap == <<>>

\* no length check at all
lengthsDifferNever(pop, conc) == FALSE

\* line 150
lengthsDiffer(pop, conc) == Len(pop) # Len(conc)

RECURSIVE gridsLoop(_, _, _, _, _, _)
\* lines 136-154, from the i-th name on
gridsLoop(conc, popNames, popRPCs, i, populationGridsByPopName, log) ==
    IF i > Len(popNames)
    THEN [err |-> NoErr, grids |-> populationGridsByPopName, calls |-> log]
    ELSE LET log2 == Append(log, Call("PopulationIncidence", popNames[i], Year,
                                      ~popRPCs[i].err))
         IN  IF popRPCs[i].err
             THEN [err |-> ProviderError, grids |-> populationGridsByPopName,
                   calls |-> log2]
             ELSE IF lengthsDiffer(popRPCs[i].Population, conc)
             THEN [err |-> DimensionMismatch, grids |-> populationGridsByPopName,
                   calls |-> log2]
             ELSE gridsLoop(conc, popNames, popRPCs, i + 1,
                            MapSet(populationGridsByPopName, popNames[i],
                                   popRPCs[i].Population), log2)

RECURSIVE accumulate(_, _, _, _, _, _, _, _)
\* lines 162-170, from cell gridIdx and the i-th name on; n counts the reads
accumulate(conc, popNames, grids, gridIdx, i, popTotals, exposureByPop, n) ==
    IF gridIdx > Len(conc)
    THEN [end |-> Returned, popTotals |-> popTotals, exposureByPop |-> exposureByPop,
          accumulated |-> n]
    ELSE IF i > Len(popNames)
    THEN accumulate(conc, popNames, grids, gridIdx + 1, 1, popTotals, exposureByPop, n)
    ELSE IF gridIdx > Len(grids[popNames[i]])
    THEN [end |-> Panicked, popTotals |-> popTotals, exposureByPop |-> exposureByPop,
          accumulated |-> n]    \* index out of range
    ELSE LET popName == popNames[i]
             numIndividuals == grids[popName][gridIdx]
         IN  accumulate(conc, popNames, grids, gridIdx, i + 1,
                        MapAdd(popTotals, popName, numIndividuals),
                        MapAdd(exposureByPop, popName, FMul(numIndividuals, conc[gridIdx])),
                        n + 1)

\* retNil: the *map[string]float64 returned is nil; retMap: what it points to
ExposureExit(end, e, acc, log) ==
    [end |-> end, err |-> e, retNil |-> TRUE, retMap |-> EmptyMap,
     popTotals |-> acc.popTotals, exposureByPop |-> acc.exposureByPop,
     accumulated |-> acc.accumulated, calls |-> log]

NothingAccumulated ==
    [popTotals |-> EmptyMap, exposureByPop |-> EmptyMap, accumulated |-> 0]

getExposureByPopulation(concRPC, namesRPC, popRPCs) ==
    LET log1 == <<Call("Concentrations", 0, Year, ~concRPC.err)>>
        log2 == Append(log1, Call("Populations", 0, Year, ~namesRPC.err))
    IN  IF concRPC.vecNil      \* conc := vec.Data, read before err is looked at
        THEN ExposureExit(Panicked, NoErr, NothingAccumulated, log1)
        ELSE IF concRPC.err
        THEN ExposureExit(Returned, ProviderError, NothingAccumulated, log1)
        ELSE IF namesRPC.err
        THEN ExposureExit(Returned, ProviderError, NothingAccumulated, log2)
        ELSE LET conc == concRPC.Data
                 popNames == namesRPC.Names
                 g == gridsLoop(conc, popNames, popRPCs, 1, EmptyMap, log2)
             IN  IF g.err # NoErr
                 THEN ExposureExit(Returned, g.err, NothingAccumulated, g.calls)
                 ELSE LET a == accumulate(conc, popNames, g.grids, 1, 1,
                                          [x \in {popNames[i] : i \in 1..Len(popNames)}
                                              |-> Float(0)],
                                          EmptyMap, 0)
                      IN  ExposureExit(a.end, NoErr, a, g.calls)

----------------------------------------------------------------------------
(* Direct calls of one function: Init draws the arguments and the          *)
(* providers' answers from the bounded sets, the action applies it.        *)

NoCall == [end |-> "none"]

InitIdle ==
    /\ pc = "idle"
    /\ dems = <<>>
    /\ emisByDemAndSCC = <<>>
    /\ err = NoErr
    /\ calls = <<>>
    /\ ret = NoCall

Pending(f) == fn = f /\ ret = NoCall

\* s.CES.DemographicConsumption
ConsumptionFailure == [err |-> TRUE, Data |-> <<>>]
ConsumptionUpTo(n) == {[err |-> FALSE, Data |-> d] : d \in SeqsUpTo(Vals, n)}
ConsumptionOfLen(n) == {[err |-> FALSE, Data |-> d] : d \in SeqsOfLen(Vals, n)}

InitConsumption ==
    /\ InitIdle
    /\ fn = "getConsumptionBySCC"
    /\ s \in Servers
    /\ \E resp \in ConsumptionUpTo(Len(s.IndustryToSCCMap) + 1) \cup {ConsumptionFailure} :
         args = [totalConsRPC |-> resp]

CallGetConsumptionBySCC ==
    /\ Pending("getConsumptionBySCC")
    /\ ret' = getConsumptionBySCC(s, args.totalConsRPC)
    /\ UNCHANGED <<pc, s, dems, emisByDemAndSCC, err, calls, fn, args>>

SpecConsumption == InitConsumption /\ [][CallGetConsumptionBySCC]_vars

----------------------------------------------------------------------------
(* The answers a loop of provider calls gets: answers that let the loop go *)
(* on, then possibly one that ends it.  The provider is not called after   *)
(* that; the rest of the sequence is padded with Rest.                     *)

Answers(Going, Ending, Rest, n) ==
    SeqsOfLen(Going, n)
    \cup UNION {
        {[i \in 1..n |-> IF i <= k THEN v[i] ELSE IF i = k + 1 THEN e ELSE Rest]
            : <<v, e>> \in SeqsOfLen(Going, k) \X Ending}
        : k \in 0..(n - 1)}

Groups(n) == [d \in 1..n |-> d]

----------------------------------------------------------------------------
(* populationAdjust called on any matrix, with any group list. *)

Matrices(rows, cols) == SeqsOfLen(SeqsOfLen(Vals, cols), rows)

\* what s.CES.TotalPopulationCount may answer
PopulationCountFailure == [err |-> TRUE, count |-> 0]
PopulationCounts == {[err |-> FALSE, count |-> c] : c \in 0..MaxPop}

InitAdjust ==
    /\ InitIdle
    /\ fn = "populationAdjust"
    /\ s = NoServer
    /\ \E numRows \in 1..MaxDems, numCols \in 1..MaxSCC, numDems \in 1..MaxDems :
         /\ numRows * numCols <= MaxCells
         /\ \E m \in Matrices(numRows, numCols),
               popRPCs \in Answers(PopulationCounts, {PopulationCountFailure},
                                   PopulationCountFailure, numDems) :
               args = [emisByDemAndSCC |-> m, dems |-> Groups(numDems),
                       popRPCs |-> popRPCs]

CallPopulationAdjust ==
    /\ Pending("populationAdjust")
    /\ ret' = populationAdjust(args.emisByDemAndSCC, args.dems, args.popRPCs)
    /\ UNCHANGED <<pc, s, dems, emisByDemAndSCC, err, calls, fn, args>>

SpecAdjust == InitAdjust /\ [][CallPopulationAdjust]_vars

----------------------------------------------------------------------------
(* getExposureByPopulation called with any answers of its providers. *)

NameList == <<"A", "B", "C", "D">>

\* s.SpatialEIO.Concentrations: a vector, or an error with a nil or a non-nil vector
ConcentrationFailures ==
    {[err |-> TRUE, vecNil |-> nil, Data |-> <<>>] : nil \in BOOLEAN}
ConcentrationVectors ==
    {[err |-> FALSE, vecNil |-> FALSE, Data |-> d] : d \in SeqsUpTo(Vals, MaxGrid)}

\* s.Populations
NamesFailure == [err |-> TRUE, Names |-> <<>>]
NamesLists == {[err |-> FALSE, Names |-> SubSeq(NameList, 1, k)] : k \in 0..MaxNames}

\* s.CSTConfig.PopulationIncidence
GridFailure == [err |-> TRUE, Population |-> <<>>]
GridsOfLen(n) == {[err |-> FALSE, Population |-> g] : g \in SeqsOfLen(Vals, n)}
\* a grid of another length; its cells all hold the same value
GridsNotOfLen(n) ==
    {[err |-> FALSE, Population |-> [i \in 1..k |-> v]]
        : <<k, v>> \in ((0..(MaxGrid + 1)) \ {n}) \X Vals}

GridAnswers(concRPC, namesRPC) ==
    IF concRPC.err \/ namesRPC.err
    THEN {<<>>}
    ELSE Answers(GridsOfLen(Len(concRPC.Data)),
                 GridsNotOfLen(Len(concRPC.Data)) \cup {GridFailure},
                 GridFailure, Len(namesRPC.Names))

InitExposure ==
    /\ InitIdle
    /\ fn = "getExposureByPopulation"
    /\ s = NoServer
    /\ \E concRPC \in ConcentrationFailures \cup ConcentrationVectors,
          namesRPC \in NamesLists \cup {NamesFailure} :
         /\ Len(concRPC.Data) * Len(namesRPC.Names) <= MaxCells
         /\ concRPC.err => namesRPC = NamesFailure
         /\ \E popRPCs \in GridAnswers(concRPC, namesRPC) :
               args = [concRPC |-> concRPC, namesRPC |-> namesRPC, popRPCs |-> popRPCs]

CallGetExposureByPopulation ==
    /\ Pending("getExposureByPopulation")
    /\ ret' = getExposureByPopulation(args.concRPC, args.namesRPC, args.popRPCs)
    /\ UNCHANGED <<pc, s, dems, emisByDemAndSCC, err, calls, fn, args>>

SpecExposure == InitExposure /\ [][CallGetExposureByPopulation]_vars

----------------------------------------------------------------------------
(* demAndEmissions called for any group list, on a server whose map is the *)
(* identity or sends every industry to every sector.                       *)

IdentityServer(n) == [nSCC |-> n, IndustryToSCCMap |-> [i \in 1..n |-> {i}]]
FanOutServer(n) == [nSCC |-> n, IndustryToSCCMap |-> [i \in 1..n |-> 1..n]]

\* s.EmissionsMatrix: a failure, a matrix of one row, a matrix of two equal
\* rows, or a matrix with one column too many or too few
EmissionsFailure == [err |-> TRUE, M |-> <<>>]
EmissionsMatrices(n) ==
    {[err |-> FALSE, M |-> <<row>>] : row \in SeqsOfLen(Vals, n)}
    \cup {[err |-> FALSE, M |-> <<row, row>>] : row \in SeqsOfLen({Float(MaxVal)}, n)}
MisshapenEmissions(n) ==
    {[err |-> FALSE, M |-> <<Zeros(c)>>] : c \in {n - 1, n + 1} \ {0}}

InitDem ==
    /\ InitIdle
    /\ fn = "demAndEmissions"
    /\ s \in {IdentityServer(n) : n \in 1..MaxSCC} \cup {FanOutServer(n) : n \in 1..MaxSCC}
    /\ \E numDems \in 1..MaxDems :
         /\ numDems * s.nSCC <= MaxCells
         /\ \E emisRPC \in EmissionsMatrices(s.nSCC) \cup MisshapenEmissions(s.nSCC)
                           \cup {EmissionsFailure},
               consRPCs \in Answers(ConsumptionUpTo(s.nSCC),
                                    ConsumptionOfLen(s.nSCC + 1) \cup {ConsumptionFailure},
                                    ConsumptionFailure, numDems) :
               args = [dems |-> Groups(numDems), emisRPC |-> emisRPC,
                       consRPCs |-> consRPCs]

CallDemAndEmissions ==
    /\ Pending("demAndEmissions")
    /\ ret' = demAndEmissions(s, args.dems, args.emisRPC, args.consRPCs)
    /\ UNCHANGED <<pc, s, dems, emisByDemAndSCC, err, calls, fn, args>>

SpecDem == InitDem /\ [][CallDemAndEmissions]_vars

----------------------------------------------------------------------------
(* emissionsAndDemTesting, one action per stage.  The server is built     *)
(* (getEIOServer succeeded) and dems holds the deciles.  The providers     *)
(* answer with vectors whose entries are all equal.                        *)

ConstVec(n, v) == [i \in 1..n |-> Float(v)]

PipelineEmissions(n) ==
    {[err |-> FALSE, M |-> <<ConstVec(n, v)>>] : v \in 0..MaxVal}
    \cup MisshapenEmissions(n) \cup {EmissionsFailure}

PipelineConsumption(n) == {[err |-> FALSE, Data |-> ConstVec(n, 1)]}
PipelineConsumptionEnding(n) ==
    {[err |-> FALSE, Data |-> ConstVec(n + 1, 1)], ConsumptionFailure}

PipelineConcentrations ==
    ConcentrationFailures
    \cup {[err |-> FALSE, vecNil |-> FALSE, Data |-> ConstVec(1, 1)]}

PipelineGrids(n) == {[err |-> FALSE, Population |-> ConstVec(n, 1)]}
PipelineGridsEnding(n) ==
    {[err |-> FALSE, Population |-> ConstVec(n + 1, 1)], GridFailure}

Init ==
    /\ pc = "FinalDemand"
    /\ s \in {IdentityServer(n) : n \in 1..MaxSCC}
    /\ dems = Groups(NumDems)
    /\ emisByDemAndSCC = <<>>
    /\ err = NoErr
    /\ calls = <<>>
    /\ fn = ""
    /\ args = NoCall
    /\ ret = NoCall

\* where the pipeline goes after a callee ended with r
Proceed(r, next) ==
    IF r.end = Panicked THEN pc' = "panic" /\ err' = NoErr
    ELSE IF r.err # NoErr THEN pc' = "done" /\ err' = r.err
    ELSE pc' = next /\ err' = NoErr

\* lines 207-214
FinalDemand ==
    /\ pc = "FinalDemand"
    /\ \E ok \in BOOLEAN :
         /\ calls' = Append(calls, Call("FinalDemand", 0, Year, ok))
         /\ pc' = IF ok THEN "demAndEmissions" ELSE "done"
         /\ err' = IF ok THEN NoErr ELSE ProviderError
    /\ UNCHANGED <<s, dems, emisByDemAndSCC, fn, args, ret>>

\* lines 216-219
DemAndEmissions ==
    /\ pc = "demAndEmissions"
    /\ \E emisRPC \in PipelineEmissions(s.nSCC),
          consRPCs \in Answers(PipelineConsumption(s.nSCC),
                               PipelineConsumptionEnding(s.nSCC),
                               ConsumptionFailure, Len(dems)) :
         LET r == demAndEmissions(s, dems, emisRPC, consRPCs)
         IN  /\ ret' = r
             /\ calls' = calls \o r.calls
             /\ emisByDemAndSCC' = r.demAndSec
             /\ Proceed(r, "populationAdjust")
    /\ UNCHANGED <<s, dems, fn, args>>

\* lines 221-224
PopulationAdjust ==
    /\ pc = "populationAdjust"
    /\ \E popRPCs \in Answers(PopulationCounts, {PopulationCountFailure},
                              PopulationCountFailure, Len(dems)) :
         LET r == populationAdjust(emisByDemAndSCC, dems, popRPCs)
         IN  /\ ret' = r
             /\ calls' = calls \o r.calls
             /\ emisByDemAndSCC' = r.matrix
             /\ Proceed(r, "logTotals")
    /\ UNCHANGED <<s, dems, fn, args>>

\* lines 226-232: the row totals are logged, nothing is changed
LogTotals ==
    /\ pc = "logTotals"
    /\ pc' = "getExposureByPopulation"
    /\ UNCHANGED <<s, dems, emisByDemAndSCC, err, calls, fn, args, ret>>

\* lines 234-239
GetExposureByPopulation ==
    /\ pc = "getExposureByPopulation"
    /\ \E concRPC \in PipelineConcentrations, namesRPC \in NamesLists \cup {NamesFailure} :
         /\ concRPC.err => namesRPC = NamesFailure
         /\ \E popRPCs \in
                IF concRPC.err \/ namesRPC.err THEN {<<>>}
                ELSE Answers(PipelineGrids(Len(concRPC.Data)),
                             PipelineGridsEnding(Len(concRPC.Data)),
                             GridFailure, Len(namesRPC.Names)) :
              LET r == getExposureByPopulation(concRPC, namesRPC, popRPCs)
              IN  /\ ret' = r
                  /\ calls' = calls \o r.calls
                  /\ Proceed(r, "done")
    /\ UNCHANGED <<s, dems, emisByDemAndSCC, fn, args>>

Next ==
    \/ FinalDemand
    \/ DemAndEmissions
    \/ PopulationAdjust
    \/ LogTotals
    \/ GetExposureByPopulation

Spec == Init /\ [][Next]_vars

----------------------------------------------------------------------------
(* Claims about getConsumptionBySCC (SpecConsumption). *)

RECURSIVE SumSet(_, _)
SumSet(S, f) ==
    IF S = {} THEN 0
    ELSE LET x == CHOOSE y \in S : TRUE IN f[x] + SumSet(S \ {x}, f)

SumSeq(v) == SumSet(DOMAIN v, [i \in DOMAIN v |-> v[i].n])

Called(f) == fn = f /\ ret.end # "none"

ConsumptionCalled == Called("getConsumptionBySCC")
ConsumptionVector == ConsumptionCalled /\ ret.end = Returned /\ ret.err = NoErr

\* the industries of the input that s.IndustryToSCCMap sends to sector sec
IndustriesOf(sec) ==
    {i \in 1..Len(args.totalConsRPC.Data) : sec \in s.IndustryToSCCMap[i]}

\* C3 as claimed: an input vector whose length differs from the number of
\* industries of s.IndustryToSCCMap, longer or shorter, makes
\* getConsumptionBySCC return a DimensionMismatch error.
C3_LengthMismatchRejected ==
    (/\ ConsumptionCalled
     /\ ~args.totalConsRPC.err
     /\ Len(args.totalConsRPC.Data) # Len(s.IndustryToSCCMap))
    => (ret.end = Returned /\ ret.err = DimensionMismatch)

\* C5: the sector vector getConsumptionBySCC returns has length len(s.SCCs),
\* entry sec is the sum of the full values of the industries mapped to sec
\* (zero when there is none), and when every industry maps to exactly one
\* sector the output's sum equals the input's sum.
C5_SectorSums ==
    ConsumptionVector =>
        /\ Len(ret.vec) = s.nSCC
        /\ \A sec \in 1..s.nSCC :
              ret.vec[sec] =
                Float(SumSet(IndustriesOf(sec),
                             [i \in IndustriesOf(sec) |-> args.totalConsRPC.Data[i].n]))
        /\ (\A i \in 1..Len(args.totalConsRPC.Data) :
               Cardinality(s.IndustryToSCCMap[i]) = 1)
           => SumSeq(ret.vec) = SumSeq(args.totalConsRPC.Data)

\* two industries feed sector 1, one of them also feeds sector 2
C5_Witness ==
    /\ ConsumptionVector
    /\ s.IndustryToSCCMap = <<{1, 2}, {1}>>
    /\ args.totalConsRPC.Data = <<Float(1), Float(1)>>
    /\ ret.vec = <<Float(2), Float(1)>>

----------------------------------------------------------------------------
(* Claims about demAndEmissions (SpecDem). *)

DemMatrix == Called("demAndEmissions") /\ ret.end = Returned /\ ret.err = NoErr

\* group g's consumption in sector sec, from the provider's answer and the map
ConsumptionBySCC(g, sec) ==
    LET Data == args.consRPCs[g].Data
        from == {i \in 1..Len(Data) : sec \in s.IndustryToSCCMap[i]}
    IN  SumSet(from, [i \in from |-> Data[i].n])

\* the emissions of sector sec over all grid cells, from the provider's answer
EmissionsBySCC(sec) ==
    SumSet(1..Len(args.emisRPC.M), [i \in 1..Len(args.emisRPC.M) |-> args.emisRPC.M[i][sec].n])

\* C6: when demAndEmissions succeeds, the matrix has one row per group and
\* one column per returned sector, and cell (g, sec) is group g's consumption
\* in sector sec times the emissions of sector sec.
C6_MatrixCells ==
    DemMatrix =>
        /\ ~ret.matNil
        /\ Len(ret.SCCs) = s.nSCC
        /\ Len(ret.demAndSec) = Len(args.dems)
        /\ \A g \in 1..Len(args.dems) :
              /\ Len(ret.demAndSec[g]) = Len(ret.SCCs)
              /\ \A sec \in 1..Len(ret.SCCs) :
                    ret.demAndSec[g][sec]
                        = Float(ConsumptionBySCC(g, sec) * EmissionsBySCC(sec))

\* two groups, two sectors, cells that differ along the row and the column
C6_Witness ==
    /\ DemMatrix
    /\ s = IdentityServer(2)
    /\ Len(args.emisRPC.M) = 2
    /\ ret.demAndSec = <<<<Float(2 * MaxVal), Float(0)>>,
                         <<Float(0), Float(2 * MaxVal)>>>>

----------------------------------------------------------------------------
(* Claims about populationAdjust (SpecAdjust). *)

DivisionByZero == "division by zero"    \* no line of the source creates it

AdjustCalled == Called("populationAdjust")

AllCounted == \A d \in 1..Len(args.dems) : ~args.popRPCs[d].err
SomeZero == \E d \in 1..Len(args.dems) : args.popRPCs[d].count = 0
TotalPop == SumSet(1..Len(args.dems), [d \in 1..Len(args.dems) |-> args.popRPCs[d].count])

\* C2 as claimed: a group with population zero makes populationAdjust fail
\* with DivisionByZero and leaves every cell of the matrix as it was.
C2_ZeroPopulationRejected ==
    (/\ AdjustCalled
     /\ AllCounted
     /\ SomeZero
     /\ Len(args.emisByDemAndSCC) = Len(args.dems))
    => (ret.err = DivisionByZero /\ ret.matrix = args.emisByDemAndSCC)

\* C8: after a successful populationAdjust with every population non-zero,
\* cell (g, j) is its old value times totalPop / pop_g, with totalPop the sum
\* over exactly the groups passed in, each counted once for the pipeline's year.
C8_RowsScaled ==
    (AdjustCalled /\ ret.err = NoErr /\ ~SomeZero) =>
        /\ Len(ret.calls) = Len(args.dems)
        /\ \A d \in 1..Len(args.dems) :
              ret.calls[d] = Call("TotalPopulationCount", args.dems[d], Year, TRUE)
        /\ Len(ret.matrix) = Len(args.emisByDemAndSCC)
        /\ \A g \in 1..Len(ret.matrix) :
              /\ Len(ret.matrix[g]) = Len(args.emisByDemAndSCC[g])
              /\ \A j \in 1..Len(ret.matrix[g]) :
                    /\ IsFinite(ret.matrix[g][j])
                    /\ ret.matrix[g][j].n * args.popRPCs[g].count
                         = args.emisByDemAndSCC[g][j].n * TotalPop * ret.matrix[g][j].d

\* populations 1 and 2: the first row is tripled, the second scaled by 3/2
C8_Witness ==
    /\ AdjustCalled
    /\ ret.err = NoErr
    /\ args.popRPCs = <<[err |-> FALSE, count |-> 1], [err |-> FALSE, count |-> 2]>>
    /\ args.emisByDemAndSCC = <<<<Float(1), Float(0)>>, <<Float(1), Float(1)>>>>
    /\ ret.matrix = <<<<Float(3), Float(0)>>,
                      <<[n |-> 3, d |-> 2], [n |-> 3, d |-> 2]>>>>

\* C10: when populationAdjust returns an error because a population query
\* failed or because the row count differs from len(dems), the matrix holds
\* the values it held before the call.
C10_ErrorLeavesMatrix ==
    (AdjustCalled /\ ret.err \in {ProviderError, DimensionMismatch})
    => ret.matrix = args.emisByDemAndSCC

\* every population is counted and non-zero, and the matrix has a row too many
C10_Witness ==
    /\ AdjustCalled
    /\ ret.err = DimensionMismatch
    /\ AllCounted
    /\ ~SomeZero
    /\ Len(args.emisByDemAndSCC) = Len(args.dems) + 1
    /\ \E j \in 1..Len(args.emisByDemAndSCC[1]) : args.emisByDemAndSCC[1][j] # Float(0)

----------------------------------------------------------------------------
(* Claims about getExposureByPopulation (SpecExposure). *)

ExposureCalled == Called("getExposureByPopulation")

Conc == args.concRPC.Data
PopNames == args.namesRPC.Names

\* the sum over the grid cells of population times concentration
ExposureTotal(i) ==
    SumSet(1..Len(Conc),
           [g \in 1..Len(Conc) |-> args.popRPCs[i].Population[g].n * Conc[g].n])

\* C1 as claimed: on success the caller gets a map that holds, for every
\* listed population name, the sum over the grid cells of population times
\* concentration.
C1_ReturnsExposureTotals ==
    (ExposureCalled /\ ret.end = Returned /\ ret.err = NoErr) =>
        /\ ~ret.retNil
        /\ \A i \in 1..Len(PopNames) :
              /\ PopNames[i] \in DOMAIN ret.retMap
              /\ ret.retMap[PopNames[i]] = Float(ExposureTotal(i))

\* the first name whose grid was fetched with a length other than conc's
MismatchedGrid(i) ==
    /\ ~args.concRPC.err
    /\ ~args.namesRPC.err
    /\ i \in 1..Len(PopNames)
    /\ \A j \in 1..i : ~args.popRPCs[j].err
    /\ \A j \in 1..(i - 1) : Len(args.popRPCs[j].Population) = Len(Conc)
    /\ Len(args.popRPCs[i].Population) # Len(Conc)

\* C9: a population grid whose length differs from the concentration
\* vector's makes getExposureByPopulation return a DimensionMismatch error,
\* and nothing has been accumulated: no grid cell was read.
C9_GridLengthChecked ==
    (ExposureCalled /\ \E i \in 1..Len(PopNames) : MismatchedGrid(i)) =>
        /\ ret.end = Returned
        /\ ret.err = DimensionMismatch
        /\ ret.accumulated = 0
        /\ ret.popTotals = EmptyMap
        /\ ret.exposureByPop = EmptyMap

\* the first name's grid fits, the second name's grid is one cell short
C9_Witness ==
    /\ ExposureCalled
    /\ Len(Conc) = 2
    /\ MismatchedGrid(2)
    /\ Len(args.popRPCs[2].Population) = 1
    /\ ret.err = DimensionMismatch

----------------------------------------------------------------------------
(* Claims about the pipeline (Spec). *)

Failed(op) == \E i \in 1..Len(calls) : calls[i].op = op /\ ~calls[i].ok

\* C4 as claimed: a provider call that fails is the last call the pipeline
\* makes, and the pipeline ends by returning an error, without a crash.
C4_ProviderFailureReturned ==
    \A i \in 1..Len(calls) :
        ~calls[i].ok => (i = Len(calls) /\ pc = "done" /\ err # NoErr)

\* C7: when the consumption provider fails for a group, demAndEmissions
\* returns an error and a nil matrix, the pipeline returns that error, and no
\* population is queried: populationAdjust does not run.
C7_NoPartialMatrix ==
    Failed("DemographicConsumption") =>
        /\ pc = "done"
        /\ err = ProviderError
        /\ ret.err = ProviderError
        /\ ret.matNil
        /\ emisByDemAndSCC = <<>>
        /\ ~calls[Len(calls)].ok
        /\ \A i \in 1..Len(calls) : calls[i].op # "TotalPopulationCount"

\* the provider fails for the middle group, after the first group's row is set
C7_Witness ==
    /\ Len(calls) = 4
    /\ calls[3] = Call("DemographicConsumption", 1, Year, TRUE)
    /\ calls[4] = Call("DemographicConsumption", 2, Year, FALSE)
    /\ Len(dems) >= 3
    /\ pc = "done"

====
